---- MODULE Spec2Model ----
(***************************************************************************)
(* Model of the autonomous trader server: the sweep orchestrator           *)
(* runTradeCycle with its two entry points (the every-minute cron job and  *)
(* POST /trigger), and the order path executeTradeInternal of binance.js   *)
(* (position-aware routing, quantization, validation, order submission).   *)
(* The POST /trigger handler of the first server version, which runs the   *)
(* sweep itself, is modelled next to it.                                   *)
(*                                                                         *)
(* Amounts.  Quantities and position amounts are counted in units of the   *)
(* default step 0.001 (Scale units = 1.0); prices and balances are whole   *)
(* USDT.  Decimal arithmetic is exact in the model.                        *)
(* Time.  The clock counts seconds since the epoch; two readings of the    *)
(* clock with no advance between them stand for two readings of Date.now() *)
(* within the same millisecond.                                            *)
(***************************************************************************)
EXTENDS Integers, Sequences, FiniteSets, TLC

VARIABLES
    clock,      \* wall clock, seconds (Date.now() / new Date())
    ticks,      \* number of clock advances so far
    masterKey,  \* ENCRYPTION_KEY is set (process.env.APP_SECRET_KEY)
    store,      \* table user_settings: account -> row
    inv,        \* one runTradeCycle invocation per entry point
    cyc,        \* per invocation and account: the async callback of users.map
    lastExec,   \* record of the last executeTradeInternal call
    exchange,   \* the exchange's side of one account: position and orders received
    call        \* per entry point: one cycle's trade loop against the exchange

vars == <<clock, ticks, masterKey, store, inv, cyc, lastExec, exchange, call>>

----------------------------------------------------------------------------
(* Bounds of the model *)

MaxTicks == 2          \* clock advances per behaviour
MaxProposals == 2      \* length of a decision-service proposal list

(* Program constants *)

Scale == 1000                  \* units per 1.0: the unit is the default step 0.001
MIN_NOTIONAL_STANDARD == 20
MIN_NOTIONAL_SMALL == 5
highValueSymbols == {"BTCUSDT", "ETHUSDT", "BNBUSDT"}
DefaultStepSize == 1           \* 0.001, getSymbolStepSize's fallback
DefaultLeverage == 1           \* trade.leverage || 1
DefaultInterval == 60          \* user.autonomous_interval || 60
SecondsPerMinute == 60         \* diffMs / 60000
SecondsPerHour == 3600
SecondsPerDay == 86400
trOffset == 10800              \* 3 * 60 * 60 * 1000 ms

NoRun == -1                    \* last_autonomous_run is null

----------------------------------------------------------------------------
(* Numbers *)

Abs(x) == IF x < 0 THEN -x ELSE x

Pow10(k) == IF k = 0 THEN 1 ELSE IF k = 1 THEN 10 ELSE IF k = 2 THEN 100 ELSE 1000

\* A JavaScript number that may be NaN.
Num(v) == [nan |-> FALSE, v |-> v]
NaN == [nan |-> TRUE, v |-> 0]

\* Math.max(0, Math.round(-Math.log10(stepSize))) for a step of `step` units.
\* round(-log10 s) >= k  iff  s <= 10^(1/2 - k)  iff  10 * (s * 10^(k-1))^2 <= 1.
precision(step) ==
    LET AtLeast(k) == /\ step * Pow10(k - 1) <= Scale
                      /\ 10 * (step * Pow10(k - 1)) * (step * Pow10(k - 1)) <= Scale * Scale
        ks == {k \in 1..3 : AtLeast(k)}
    IN  IF ks = {} THEN 0 ELSE CHOOSE k \in ks : \A j \in ks : j <= k

\* Number.prototype.toFixed(p) of a non-negative exact decimal of `v` units:
\* the nearest decimal with p places, the larger one on a tie.  The result is
\* the number the printed string denotes, in units.
toFixed(v, p) ==
    LET q == Scale \div Pow10(p)
    IN  ((2 * v + q) \div (2 * q)) * q

\* roundToStep: Math.floor(value / stepSize) * stepSize, printed with toFixed.
roundToStep(value, stepSize) ==
    LET rounded == (value \div stepSize) * stepSize
    IN  toFixed(rounded, precision(stepSize))

----------------------------------------------------------------------------
(* binance.js *)

Symbols == {"BTCUSDT", "DOGEUSDT"}
Actions == {"BUY", "SELL", "CLOSE"}

\* getMarketPrice: parseFloat(data.price) of the ticker response; a response
\* body without a price field parses to NaN; a failed fetch yields 0.
getMarketPrice(resp) ==
    IF resp.kind = "price" THEN Num(resp.price)
    ELSE IF resp.kind = "nobody" THEN NaN
    ELSE Num(0)

\* validateTrade: "ok" or the error it throws.  quantity is in units,
\* availableBalance in USDT; comparisons with NaN are false.
validateTrade(cleanSymbol, quantity, side, availableBalance, marketPrice) ==
    LET notionalValue == IF marketPrice.nan THEN NaN ELSE Num(quantity * marketPrice.v)
        minNotional == IF cleanSymbol \in highValueSymbols
                       THEN MIN_NOTIONAL_SMALL ELSE MIN_NOTIONAL_STANDARD
    IN  IF quantity <= 0 THEN "InvalidQuantity"
        ELSE IF ~marketPrice.nan /\ marketPrice.v = 0 THEN "NoMarketPrice"
        ELSE IF ~notionalValue.nan /\ notionalValue.v < minNotional * Scale
             THEN "BelowMinimumNotional"
        ELSE IF /\ side \in {"BUY", "SELL"}
                /\ ~notionalValue.nan
                /\ notionalValue.v * 10 > availableBalance * 9 * Scale
             THEN "InsufficientBalance"
        ELSE "ok"

\* getUserBinanceContext: "ok" or the error it throws.
getUserBinanceContext(key, creds, accountResp) ==
    IF ~key THEN "ConfigurationError"
    ELSE IF ~creds THEN "CredentialsMissing"
    ELSE IF accountResp # "ok" THEN "ExchangeRequestError"
    ELSE "ok"

\* route with the side of an explicit CLOSE taken from the request instead of
\* the position's sign (the order would add to a long position).
routeCloseKeepsRequestedSide(action, quantity, posAmt) ==
    LET requestedSide == IF action = "BUY" THEN "BUY" ELSE "SELL"
    IN  IF action = "CLOSE"
        THEN IF posAmt # 0
             THEN [err |-> "ok", side |-> IF posAmt > 0 THEN "BUY" ELSE requestedSide,
                   quantity |-> Abs(posAmt), isClosing |-> TRUE]
             ELSE [err |-> "NoPositionToClose", side |-> requestedSide,
                   quantity |-> quantity, isClosing |-> FALSE]
        ELSE [err |-> "ok", side |-> requestedSide, quantity |-> quantity,
              isClosing |-> \/ (requestedSide = "SELL" /\ posAmt > 0)
                            \/ (requestedSide = "BUY" /\ posAmt < 0)]

\* route with the reducing test of a short position lost (BUY while short is
\* taken for an opening order).
routeMissesReducingShort(action, quantity, posAmt) ==
    LET requestedSide == IF action = "BUY" THEN "BUY" ELSE "SELL"
    IN  IF action = "CLOSE"
        THEN IF posAmt # 0
             THEN [err |-> "ok", side |-> IF posAmt > 0 THEN "SELL" ELSE "BUY",
                   quantity |-> Abs(posAmt), isClosing |-> TRUE]
             ELSE [err |-> "NoPositionToClose", side |-> requestedSide,
                   quantity |-> quantity, isClosing |-> FALSE]
        ELSE [err |-> "ok", side |-> requestedSide, quantity |-> quantity,
              isClosing |-> requestedSide = "SELL" /\ posAmt > 0]

\* The routing step of executeTradeInternal (section 2 and 3 of the function).
route(action, quantity, posAmt) ==
    LET requestedSide == IF action = "BUY" THEN "BUY" ELSE "SELL"
    IN  IF action = "CLOSE"
        THEN IF posAmt # 0
             THEN [err |-> "ok", side |-> IF posAmt > 0 THEN "SELL" ELSE "BUY",
                   quantity |-> Abs(posAmt), isClosing |-> TRUE]
             ELSE [err |-> "NoPositionToClose", side |-> requestedSide,
                   quantity |-> quantity, isClosing |-> FALSE]
        ELSE LET reducingLong == requestedSide = "SELL" /\ posAmt > 0
                 reducingShort == requestedSide = "BUY" /\ posAmt < 0
             IN  [err |-> "ok", side |-> requestedSide, quantity |-> quantity,
                  isClosing |-> reducingLong \/ reducingShort]

\* placeConditionalOrders without the test of isClosing: the stop-loss and
\* take-profit of the proposal also follow an order that closes or reduces.
placeConditionalOrdersAlsoWhenClosing(trade, side, isClosing, orderId, slRes, tpRes) ==
    LET exitSide == IF side = "BUY" THEN "SELL" ELSE "BUY"
        sl == [type |-> "STOP_MARKET", side |-> exitSide]
        tp == [type |-> "TAKE_PROFIT_MARKET", side |-> exitSide]
    IN  IF ~(orderId # 0 /\ (trade.stopLoss > 0 \/ trade.takeProfit > 0))
        THEN [sent |-> <<>>, threw |-> FALSE]
        ELSE IF trade.stopLoss > 0 /\ slRes = "throw"
        THEN [sent |-> <<sl>>, threw |-> TRUE]
        ELSE LET first == IF trade.stopLoss > 0 THEN <<sl>> ELSE <<>>
             IN  IF trade.takeProfit > 0
                 THEN [sent |-> Append(first, tp), threw |-> tpRes = "throw"]
                 ELSE [sent |-> first, threw |-> FALSE]

\* Section 5 of executeTradeInternal: the conditional orders placed after an
\* accepted market order.  A rejected fetch throws out of executeTradeInternal.
placeConditionalOrders(trade, side, isClosing, orderId, slRes, tpRes) ==
    LET exitSide == IF side = "BUY" THEN "SELL" ELSE "BUY"
        sl == [type |-> "STOP_MARKET", side |-> exitSide]
        tp == [type |-> "TAKE_PROFIT_MARKET", side |-> exitSide]
    IN  IF ~(~isClosing /\ orderId # 0 /\ (trade.stopLoss > 0 \/ trade.takeProfit > 0))
        THEN [sent |-> <<>>, threw |-> FALSE]
        ELSE IF trade.stopLoss > 0 /\ slRes = "throw"
        THEN [sent |-> <<sl>>, threw |-> TRUE]
        ELSE LET first == IF trade.stopLoss > 0 THEN <<sl>> ELSE <<>>
             IN  IF trade.takeProfit > 0
                 THEN [sent |-> Append(first, tp), threw |-> tpRes = "throw"]
                 ELSE [sent |-> first, threw |-> FALSE]

\* The query strings of the authenticated requests, as the sequences of
\* their parameter names in the order they are written: lines 163, 230
\* (the template has blanks around its separators, which are part of the
\* names), 250-257 with 285 (Object.keys(params)), and 321.
accountQuery == <<"timestamp", "recvWindow">>
levQuery == <<"symbol ", " leverage", " timestamp", " recvWindow">>
orderQuery == <<"symbol", "side", "type", "quantity", "timestamp", "newClientOrderId">>
condParams ==
    <<"symbol", "side", "algoType", "type", "triggerPrice", "closePosition",
      "newClientOrderId", "timestamp", "recvWindow">>

\* A request to an authenticated endpoint: signHmac(secretKey, query) is
\* computed over the query string and the URL is query + "&signature=" + it.
SignedRequest(endpoint, query) ==
    [endpoint |-> endpoint, query |-> query, signedOver |-> query,
     sent |-> Append(query, "signature")]

\* changeLeverage with the catch of line 240 throwing the error on.
changeLeverageRethrows(levRes) ==
    [threw |-> levRes = "throw", warned |-> levRes = "notok"]

\* Lines 227-242: the leverage request inside its try/catch.  A non-success
\* response is logged as a warning, a rejected fetch is caught and logged.
changeLeverage(levRes) ==
    [threw |-> FALSE, warned |-> levRes = "notok"]

NoExec ==
    [outcome |-> "none", returned |-> FALSE, trade |-> [symbol |-> "", action |-> "",
     quantity |-> 0, leverage |-> 0, stopLoss |-> 0, takeProfit |-> 0],
     routed |-> FALSE, posAmt |-> 0, leverageCall |-> FALSE, levRes |-> "none",
     requests |-> <<>>, side |-> "",
     routedQuantity |-> 0, stepSize |-> 0,
     isClosing |-> FALSE, quantity |-> 0, notional |-> NaN, minNotional |-> 0,
     usdtFree |-> 0, marketSent |-> FALSE, orderId |-> 0, condOrders |-> <<>>]

\* executeTradeInternal(supabaseAdmin, userId, trade): env holds what the
\* settings store and the exchange answer during the call.  The result tells
\* whether the call returned or threw (outcome), and what it sent.
executeTradeInternal(key, trade, env) ==
    LET base == [NoExec EXCEPT !.trade = trade, !.usdtFree = env.usdtFree]
        ctx1 == getUserBinanceContext(key, env.creds, env.accountResp1)
        posAmt == env.posAmt
        existingPos == posAmt # 0
        targetLeverage == IF trade.leverage = 0 THEN DefaultLeverage ELSE trade.leverage
        leverageCall == /\ trade.action # "CLOSE"
                        /\ (~existingPos \/ env.posLeverage # targetLeverage)
        lev == IF leverageCall THEN changeLeverage(env.levRes)
                               ELSE [threw |-> FALSE, warned |-> FALSE]
        account == <<SignedRequest("account", accountQuery)>>
        fetched == account \o (IF leverageCall
                                THEN <<SignedRequest("leverage", levQuery)>> ELSE <<>>)
        levered == [base EXCEPT !.posAmt = posAmt, !.leverageCall = leverageCall,
                                !.levRes = IF leverageCall THEN env.levRes ELSE "none",
                                !.requests = fetched]
        r == route(trade.action, trade.quantity, posAmt)
        quantity == roundToStep(r.quantity, env.stepSize)
        routed == [levered EXCEPT !.routed = TRUE,
                               !.side = r.side, !.routedQuantity = r.quantity,
                               !.isClosing = r.isClosing]
        ctx2 == getUserBinanceContext(key, env.creds, env.accountResp2)
        marketPrice == getMarketPrice(env.priceResp)
        valid == validateTrade(trade.symbol, quantity, r.side, env.usdtFree, marketPrice)
        quantized == [routed EXCEPT !.quantity = quantity, !.stepSize = env.stepSize,
                        !.requests = fetched \o account,
                        !.notional = IF marketPrice.nan THEN NaN
                                     ELSE Num(quantity * marketPrice.v),
                        !.minNotional = IF trade.symbol \in highValueSymbols
                                        THEN MIN_NOTIONAL_SMALL ELSE MIN_NOTIONAL_STANDARD]
        orderId == IF env.orderResp = "ok" THEN 1 ELSE 0
        cond == placeConditionalOrders(trade, r.side, r.isClosing, orderId,
                                       env.slRes, env.tpRes)
        ordered == [quantized EXCEPT !.marketSent = TRUE,
                        !.requests = fetched \o account
                                       \o <<SignedRequest("order", orderQuery)>>]
        protected == [ordered EXCEPT !.orderId = orderId, !.condOrders = cond.sent,
                        !.requests = ordered.requests \o
                            [i \in 1..Len(cond.sent) |->
                                SignedRequest("algoOrder", condParams)]]
    IN  IF ~key THEN [base EXCEPT !.outcome = "ConfigurationError"]
        ELSE IF ~env.creds THEN [base EXCEPT !.outcome = "CredentialsMissing"]
        ELSE IF ctx1 # "ok" THEN [base EXCEPT !.outcome = ctx1, !.requests = account]
        ELSE IF lev.threw THEN [levered EXCEPT !.outcome = "LeverageChangeFailed"]
        ELSE IF r.err # "ok"
             THEN [routed EXCEPT !.outcome = r.err]
        ELSE IF ctx2 # "ok" THEN [quantized EXCEPT !.outcome = ctx2, !.notional = NaN]
        ELSE IF valid # "ok" THEN [quantized EXCEPT !.outcome = valid]
        ELSE IF env.orderResp = "reject"
             THEN [ordered EXCEPT !.outcome = "ExchangeRequestError"]
        ELSE IF cond.threw
             THEN [protected EXCEPT !.outcome = "ConditionalOrderError"]
        ELSE [protected EXCEPT !.outcome = "ok", !.returned = TRUE]

----------------------------------------------------------------------------
(* The server: user_settings rows, the schedule check, runTradeCycle *)

Accounts == {"a1", "a2"}
EntryPoints == {"cron", "trigger"}
NoTarget == "ALL"              \* targetUserId = null

\* The rows of user_settings the model starts from.
InitialRow(a) ==
    IF a = "a1"
    THEN [is_autonomous_enabled |-> TRUE, autonomous_schedule_type |-> "interval",
          autonomous_interval |-> 1, autonomous_daily_time |-> <<9, 0>>,
          last_autonomous_run |-> NoRun, expo_push_token |-> TRUE]
    ELSE [is_autonomous_enabled |-> TRUE, autonomous_schedule_type |-> "daily",
          autonomous_interval |-> 0, autonomous_daily_time |-> <<9, 0>>,
          last_autonomous_run |-> NoRun, expo_push_token |-> FALSE]

\* shouldRun with the interval test written with > instead of >=: an account
\* is not due at exactly intervalMinutes elapsed minutes.
shouldRunIntervalStrict(forceRun, user, nowUTC) ==
    LET scheduleType == IF user.autonomous_schedule_type = ""
                        THEN "interval" ELSE user.autonomous_schedule_type
        intervalMinutes == IF user.autonomous_interval = 0
                           THEN DefaultInterval ELSE user.autonomous_interval
        dailyTime == user.autonomous_daily_time
        lastRun == user.last_autonomous_run
        nowTR == nowUTC + trOffset
        diffMin == (nowUTC - lastRun) \div SecondsPerMinute
        targetHour == dailyTime[1]
        targetMin == dailyTime[2]
        currentHour == (nowTR % SecondsPerDay) \div SecondsPerHour
        currentMin == (nowTR % SecondsPerHour) \div SecondsPerMinute
        hasRunToday == /\ lastRun # NoRun
                       /\ (lastRun + trOffset) \div SecondsPerDay = nowTR \div SecondsPerDay
    IN  IF forceRun THEN TRUE
        ELSE IF scheduleType = "interval"
             THEN lastRun = NoRun \/ diffMin > intervalMinutes
        ELSE IF scheduleType = "daily"
             THEN /\ ~hasRunToday
                  /\ \/ currentHour > targetHour
                     \/ (currentHour = targetHour /\ currentMin >= targetMin)
        ELSE FALSE

\* shouldRun with the daily test comparing hour and minute each on its own
\* instead of hour first, then minute.
shouldRunComparesMinuteAlone(forceRun, user, nowUTC) ==
    LET scheduleType == IF user.autonomous_schedule_type = ""
                        THEN "interval" ELSE user.autonomous_schedule_type
        intervalMinutes == IF user.autonomous_interval = 0
                           THEN DefaultInterval ELSE user.autonomous_interval
        dailyTime == user.autonomous_daily_time
        lastRun == user.last_autonomous_run
        nowTR == nowUTC + trOffset
        diffMin == (nowUTC - lastRun) \div SecondsPerMinute
        targetHour == dailyTime[1]
        targetMin == dailyTime[2]
        currentHour == (nowTR % SecondsPerDay) \div SecondsPerHour
        currentMin == (nowTR % SecondsPerHour) \div SecondsPerMinute
        hasRunToday == /\ lastRun # NoRun
                       /\ (lastRun + trOffset) \div SecondsPerDay = nowTR \div SecondsPerDay
    IN  IF forceRun THEN TRUE
        ELSE IF scheduleType = "interval"
             THEN lastRun = NoRun \/ diffMin >= intervalMinutes
        ELSE IF scheduleType = "daily"
             THEN /\ ~hasRunToday
                  /\ currentHour >= targetHour
                  /\ currentMin >= targetMin
        ELSE FALSE

\* shouldRun with hasRunToday never set: a daily account is due at every
\* evaluation past its dailyTime.
shouldRunDailyIgnoresLastRun(forceRun, user, nowUTC) ==
    LET scheduleType == IF user.autonomous_schedule_type = ""
                        THEN "interval" ELSE user.autonomous_schedule_type
        intervalMinutes == IF user.autonomous_interval = 0
                           THEN DefaultInterval ELSE user.autonomous_interval
        dailyTime == user.autonomous_daily_time
        lastRun == user.last_autonomous_run
        nowTR == nowUTC + trOffset
        diffMin == (nowUTC - lastRun) \div SecondsPerMinute
        targetHour == dailyTime[1]
        targetMin == dailyTime[2]
        currentHour == (nowTR % SecondsPerDay) \div SecondsPerHour
        currentMin == (nowTR % SecondsPerHour) \div SecondsPerMinute
        hasRunToday == FALSE
    IN  IF forceRun THEN TRUE
        ELSE IF scheduleType = "interval"
             THEN lastRun = NoRun \/ diffMin >= intervalMinutes
        ELSE IF scheduleType = "daily"
             THEN /\ ~hasRunToday
                  /\ \/ currentHour > targetHour
                     \/ (currentHour = targetHour /\ currentMin >= targetMin)
        ELSE FALSE

\* shouldRun without the forceRun branch: a forced run goes through the
\* schedule validation like any other.
shouldRunChecksScheduleWhenForced(forceRun, user, nowUTC) ==
    LET scheduleType == IF user.autonomous_schedule_type = ""
                        THEN "interval" ELSE user.autonomous_schedule_type
        intervalMinutes == IF user.autonomous_interval = 0
                           THEN DefaultInterval ELSE user.autonomous_interval
        dailyTime == user.autonomous_daily_time
        lastRun == user.last_autonomous_run
        nowTR == nowUTC + trOffset
        diffMin == (nowUTC - lastRun) \div SecondsPerMinute
        targetHour == dailyTime[1]
        targetMin == dailyTime[2]
        currentHour == (nowTR % SecondsPerDay) \div SecondsPerHour
        currentMin == (nowTR % SecondsPerHour) \div SecondsPerMinute
        hasRunToday == /\ lastRun # NoRun
                       /\ (lastRun + trOffset) \div SecondsPerDay = nowTR \div SecondsPerDay
    IN  IF FALSE THEN TRUE
        ELSE IF scheduleType = "interval"
             THEN lastRun = NoRun \/ diffMin >= intervalMinutes
        ELSE IF scheduleType = "daily"
             THEN /\ ~hasRunToday
                  /\ \/ currentHour > targetHour
                     \/ (currentHour = targetHour /\ currentMin >= targetMin)
        ELSE FALSE

\* Lines 233-277 of runTradeCycle: the schedule validation of one user row.
shouldRun(forceRun, user, nowUTC) ==
    LET scheduleType == IF user.autonomous_schedule_type = ""
                        THEN "interval" ELSE user.autonomous_schedule_type
        intervalMinutes == IF user.autonomous_interval = 0
                           THEN DefaultInterval ELSE user.autonomous_interval
        dailyTime == user.autonomous_daily_time
        lastRun == user.last_autonomous_run
        nowTR == nowUTC + trOffset
        diffMin == (nowUTC - lastRun) \div SecondsPerMinute
        targetHour == dailyTime[1]
        targetMin == dailyTime[2]
        currentHour == (nowTR % SecondsPerDay) \div SecondsPerHour
        currentMin == (nowTR % SecondsPerHour) \div SecondsPerMinute
        hasRunToday == /\ lastRun # NoRun
                       /\ (lastRun + trOffset) \div SecondsPerDay = nowTR \div SecondsPerDay
    IN  IF forceRun THEN TRUE
        ELSE IF scheduleType = "interval"
             THEN lastRun = NoRun \/ diffMin >= intervalMinutes
        ELSE IF scheduleType = "daily"
             THEN /\ ~hasRunToday
                  /\ \/ currentHour > targetHour
                     \/ (currentHour = targetHour /\ currentMin >= targetMin)
        ELSE FALSE

IdleInv == [pc |-> "idle", targetUserId |-> NoTarget, forceRun |-> FALSE,
            nowUTC |-> 0, acked |-> FALSE]

\* One callback of users.map.  ctx and analyst record how the context fetch
\* and the decision-service call ended, fail which error the catch of line
\* 399 caught.  n is the number of proposals the decision
\* service returned; started and attempted count the executeTradeInternal
\* calls begun and ended, sent and accepted the market order requests sent
\* and those the exchange gave an order id; actionLog is the length of the
\* action log.
NoCycle == [pc |-> "none", fail |-> "none", stamped |-> FALSE, external |-> FALSE,
            ctx |-> "none", analyst |-> "none",
            n |-> 0, started |-> 0, attempted |-> 0, sent |-> 0, accepted |-> 0, actionLog |-> 0,
            notified |-> 0]

\* users without the filter on is_autonomous_enabled: a sweep that names no
\* account works on every row.
usersIgnoresFlag(targetUserId) ==
    IF targetUserId # NoTarget
    THEN {a \in DOMAIN store : a = targetUserId}
    ELSE DOMAIN store

\* users with the filter on is_autonomous_enabled applied to the named
\* account as well.
usersFiltersNamedByFlag(targetUserId) ==
    IF targetUserId # NoTarget
    THEN {a \in DOMAIN store : a = targetUserId /\ store[a].is_autonomous_enabled}
    ELSE {a \in DOMAIN store : store[a].is_autonomous_enabled}

\* The query of lines 199-214: the rows a sweep works on.
users(targetUserId) ==
    IF targetUserId # NoTarget
    THEN {a \in DOMAIN store : a = targetUserId}
    ELSE {a \in DOMAIN store : store[a].is_autonomous_enabled}

Quiescent == \A e \in EntryPoints : inv[e].pc = "idle"

\* The clock is read at one place, line 227, when a query has returned: the
\* model lets the clock advance while an invocation waits for its query.
ClockRead == \E e \in EntryPoints : inv[e].pc = "query"

Deltas == {30}                 \* seconds by which the clock advances in one step
\* The model starts at 05:59:00 UTC of a day, 08:59:00 in the UTC+3 calendar.
StartClock == 5 * SecondsPerHour + 59 * SecondsPerMinute

Tick ==
    /\ ticks < MaxTicks
    /\ \E d \in Deltas : clock' = clock + d
    /\ ticks' = ticks + 1
    /\ UNCHANGED <<masterKey, store, inv, cyc, lastExec, exchange, call>>

\* runTradeCycle up to its first await: the query is issued.
Start(e, targetUserId, forceRun) ==
    /\ inv[e].pc = "idle"
    /\ inv' = [inv EXCEPT ![e] = [pc |-> "query", targetUserId |-> targetUserId,
                                  forceRun |-> forceRun, nowUTC |-> 0,
                                  acked |-> e = "trigger"]]
    /\ UNCHANGED <<clock, ticks, masterKey, store, cyc, lastExec, exchange, call>>

\* cron.schedule('* * * * *'): runTradeCycle(null, false).
CronJob == Start("cron", NoTarget, FALSE)

\* POST /trigger: runTradeCycle(userId, !!force), not awaited; the response
\* is sent in the same turn.
Trigger == \E userId \in Accounts \cup {NoTarget}, force \in BOOLEAN :
               Start("trigger", userId, force)

\* The query fails: runTradeCycle throws userError.
QueryError(e) ==
    /\ inv[e].pc = "query"
    /\ inv' = [inv EXCEPT ![e] = IdleInv]
    /\ UNCHANGED <<clock, ticks, masterKey, store, cyc, lastExec, exchange, call>>

\* The query returns: nowUTC is read and every callback of users.map runs to
\* its first await (the schedule check, then the update of last_autonomous_run
\* is issued).
QueryReturn(e) ==
    /\ inv[e].pc = "query"
    /\ inv' = [inv EXCEPT ![e].pc = "map", ![e].nowUTC = clock]
    /\ cyc' = [cyc EXCEPT ![e] = [a \in Accounts |->
                 IF a \notin users(inv[e].targetUserId) THEN NoCycle
                 ELSE IF shouldRun(inv[e].forceRun, store[a], clock)
                      THEN [NoCycle EXCEPT !.pc = "stamp"]
                      ELSE [NoCycle EXCEPT !.pc = "declined"]]]
    /\ UNCHANGED <<clock, ticks, masterKey, store, lastExec, exchange, call>>

\* StampLastRun with the update issued by scheduled sweeps only: a forced
\* cycle goes on to its work and leaves last_autonomous_run as it was.
StampLastRunSkipsForced(e, a) ==
    /\ cyc[e][a].pc = "stamp"
    /\ store' = IF inv[e].forceRun THEN store
                ELSE [store EXCEPT ![a].last_autonomous_run = inv[e].nowUTC]
    /\ cyc' = [cyc EXCEPT ![e][a].pc = "ctx", ![e][a].stamped = ~inv[e].forceRun]
    /\ UNCHANGED <<clock, ticks, masterKey, inv, lastExec, exchange, call>>

\* StampLastRun with the update left out: the callback goes on to its work
\* and last_autonomous_run is not written.
StampLastRunMissing(e, a) ==
    /\ cyc[e][a].pc = "stamp"
    /\ cyc' = [cyc EXCEPT ![e][a].pc = "ctx"]
    /\ UNCHANGED <<clock, ticks, masterKey, store, inv, lastExec, exchange, call>>

\* Lines 287-290: the update of last_autonomous_run reaches the store.
StampLastRun(e, a) ==
    /\ cyc[e][a].pc = "stamp"
    /\ store' = [store EXCEPT ![a].last_autonomous_run = inv[e].nowUTC]
    /\ cyc' = [cyc EXCEPT ![e][a].pc = "ctx", ![e][a].stamped = TRUE]
    /\ UNCHANGED <<clock, ticks, masterKey, inv, lastExec, exchange, call>>

\* FetchContext without the try/catch of lines 294-401 around it, in a loop
\* that awaits the accounts one after another: the error ends the sweep, and
\* the callbacks that have not ended yet never go on.
FetchContextAbortsSweep(e, a) ==
    /\ cyc[e][a].pc = "ctx"
    /\ \E creds \in BOOLEAN, accountResp \in {"ok", "error"} :
         LET ctx == getUserBinanceContext(masterKey, creds, accountResp)
         IN  cyc' = [cyc EXCEPT ![e] = [b \in Accounts |->
                IF b = a
                THEN [cyc[e][a] EXCEPT !.external = TRUE,
                        !.ctx = IF ctx = "ok" THEN "ok" ELSE "error",
                        !.pc = IF ctx = "ok" THEN "analyst" ELSE "done",
                        !.fail = IF ctx = "ok" THEN "none" ELSE "ctx"]
                ELSE IF ctx # "ok" /\ cyc[e][b].pc \notin {"none", "declined"}
                     THEN [cyc[e][b] EXCEPT !.pc = "done"]
                     ELSE cyc[e][b]]]
    /\ UNCHANGED <<clock, ticks, masterKey, store, inv, lastExec, exchange, call>>

\* Line 295: getUserBinanceContext; its error is caught at line 399.
FetchContext(e, a) ==
    /\ cyc[e][a].pc = "ctx"
    /\ \E creds \in BOOLEAN, accountResp \in {"ok", "error"} :
         LET ctx == getUserBinanceContext(masterKey, creds, accountResp)
         IN  cyc' = [cyc EXCEPT ![e][a].external = TRUE,
                        ![e][a].ctx = IF ctx = "ok" THEN "ok" ELSE "error",
                        ![e][a].pc = IF ctx = "ok" THEN "analyst" ELSE "done",
                        ![e][a].fail = IF ctx = "ok" THEN "none" ELSE "ctx"]
    /\ UNCHANGED <<clock, ticks, masterKey, store, inv, lastExec, exchange, call>>

\* CallAnalyst without the test of analystResponse.ok (lines 313-316): the
\* body of a non-success response is read for proposals like any other.
CallAnalystIgnoresStatus(e, a) ==
    /\ cyc[e][a].pc = "analyst"
    /\ \E resp \in {"ok", "notok", "throw"}, n \in 0..MaxProposals :
         cyc' = [cyc EXCEPT ![e][a].analyst = resp,
                            ![e][a].pc = IF resp # "throw" THEN "trade" ELSE "done",
                            ![e][a].fail = IF resp # "throw" THEN "none" ELSE "analyst",
                            ![e][a].n = IF resp # "throw" THEN n ELSE 0]
    /\ UNCHANGED <<clock, ticks, masterKey, store, inv, lastExec, exchange, call>>

\* Lines 300-319: the decision service answers with n proposals, answers with
\* a non-success status, or the fetch fails.
CallAnalyst(e, a) ==
    /\ cyc[e][a].pc = "analyst"
    /\ \E resp \in {"ok", "notok", "throw"}, n \in 0..MaxProposals :
         cyc' = [cyc EXCEPT ![e][a].analyst = resp,
                            ![e][a].pc = IF resp = "ok" THEN "trade" ELSE "done",
                            ![e][a].fail = IF resp = "ok" THEN "none" ELSE "analyst",
                            ![e][a].n = IF resp = "ok" THEN n ELSE 0]
    /\ UNCHANGED <<clock, ticks, masterKey, store, inv, lastExec, exchange, call>>

\* What the decision service may propose in a sweep, and what the exchange
\* and the settings store may answer while one proposal is executed.
Proposal(symbol, action, quantity, leverage, stopLoss, takeProfit) ==
    [symbol |-> symbol, action |-> action, quantity |-> quantity,
     leverage |-> leverage, stopLoss |-> stopLoss, takeProfit |-> takeProfit]

SweepProposals ==
    { Proposal("BTCUSDT", "BUY", Scale, 0, 90, 0),
      Proposal("BTCUSDT", "CLOSE", 0, 0, 0, 0),
      Proposal("DOGEUSDT", "SELL", Scale, 0, 0, 0) }

Price(p) == [kind |-> "price", price |-> p]

SweepEnvs ==
    [creds : {TRUE}, accountResp1 : {"ok", "error"}, posAmt : {0, Scale},
     posLeverage : {DefaultLeverage}, levRes : {"ok", "throw"},
     stepSize : {DefaultStepSize}, accountResp2 : {"ok"}, usdtFree : {10, 1000},
     priceResp : {Price(10)}, orderResp : {"ok", "reject"},
     slRes : {"ok", "throw"}, tpRes : {"ok"}]

\* What the loop of runTradeCycle reads of one executeTradeInternal call:
\* whether it returned (or threw), whether the result carries an order id;
\* and, of the call itself, whether it sent a market order request and
\* whether the exchange gave that order an id.
TradeResult(res) ==
    [returned |-> res.returned, marketSent |-> res.marketSent,
     accepted |-> res.orderId # 0, failure |-> IF res.returned THEN "ok" ELSE res.outcome]

\* Every result one loop iteration can meet, by the state of the master key.
SweepResults ==
    [key \in BOOLEAN |->
        {TradeResult(executeTradeInternal(key, trade, env)) :
            trade \in SweepProposals, env \in SweepEnvs}]

\* ExecuteTrade without the try/catch of lines 328-353: an error thrown by
\* executeTradeInternal leaves the loop and is caught at line 399.
ExecuteTradeAbortsLoop(e, a) ==
    /\ cyc[e][a].pc = "trade"
    /\ cyc[e][a].attempted < cyc[e][a].n
    /\ \E res \in SweepResults[masterKey] :
         LET c == cyc[e][a]
         IN  cyc' = [cyc EXCEPT ![e][a] =
                  [c EXCEPT !.started = c.started + 1,
                            !.attempted = c.attempted + 1,
                            !.sent = c.sent + (IF res.marketSent THEN 1 ELSE 0),
                            !.accepted = c.accepted + (IF res.accepted THEN 1 ELSE 0),
                            !.actionLog = c.actionLog +
                                (IF res.returned /\ res.accepted THEN 1 ELSE 0),
                            !.pc = IF res.returned THEN "trade" ELSE "done",
                            !.fail = IF res.returned THEN "none" ELSE "trade"]]
    /\ UNCHANGED <<clock, ticks, masterKey, store, inv, lastExec, exchange, call>>

\* Lines 325-354: one iteration of the loop over tradeRecommendations.  The
\* proposal is read when its iteration starts; a thrown error is caught at
\* line 351 and the loop goes on.
ExecuteTrade(e, a) ==
    /\ cyc[e][a].pc = "trade"
    /\ cyc[e][a].attempted < cyc[e][a].n
    /\ \E res \in SweepResults[masterKey] :
         LET c == cyc[e][a]
         IN  cyc' = [cyc EXCEPT ![e][a] =
                  [c EXCEPT !.started = c.started + 1,
                            !.attempted = c.attempted + 1,
                            !.sent = c.sent + (IF res.marketSent THEN 1 ELSE 0),
                            !.accepted = c.accepted + (IF res.accepted THEN 1 ELSE 0),
                            !.actionLog = c.actionLog +
                                (IF res.returned /\ res.accepted THEN 1 ELSE 0)]]
    /\ UNCHANGED <<clock, ticks, masterKey, store, inv, lastExec, exchange, call>>

\* Lines 356-397: after the loop, the notification record is inserted when
\* the action log is not empty, then the push is sent when there is a token;
\* a failed push is caught at line 399.
Notify(e, a) ==
    /\ cyc[e][a].pc = "trade"
    /\ cyc[e][a].attempted = cyc[e][a].n
    /\ \E pushRes \in {"ok", "throw"} :
         LET c == cyc[e][a]
             emit == c.actionLog > 0
             push == emit /\ store[a].expo_push_token
         IN  /\ (~push => pushRes = "ok")
             /\ cyc' = [cyc EXCEPT ![e][a] =
                  [c EXCEPT !.pc = "done",
                            !.notified = c.notified + (IF emit THEN 1 ELSE 0),
                            !.fail = IF pushRes = "throw" THEN "push" ELSE "none"]]
    /\ UNCHANGED <<clock, ticks, masterKey, store, inv, lastExec, exchange, call>>

\* Line 404: Promise.allSettled resolves when every callback has ended.
SweepSettled(e) ==
    /\ inv[e].pc = "map"
    /\ \A a \in Accounts : cyc[e][a].pc \in {"none", "declined", "done"}
    /\ inv' = [inv EXCEPT ![e] = IdleInv]
    /\ cyc' = [cyc EXCEPT ![e] = [a \in Accounts |-> NoCycle]]
    /\ UNCHANGED <<clock, ticks, masterKey, store, lastExec, exchange, call>>

Cycle ==
    \E e \in EntryPoints :
        \/ QueryError(e)
        \/ QueryReturn(e)
        \/ SweepSettled(e)
        \/ \E a \in Accounts :
              \/ StampLastRun(e, a)
              \/ FetchContext(e, a)
              \/ CallAnalyst(e, a)
              \/ ExecuteTrade(e, a)
              \/ Notify(e, a)

\* The exchange has received no order and the position is flat; no cycle
\* has reached its trade loop.
\* ids are the client order ids of the orders received, received their number.
NoOrders == [posAmt |-> 0, ids |-> {}, received |-> 0]

\* filled is the net quantity of the cycle's market orders the exchange filled.
NoCall == [pc |-> "idle", positions |-> 0, tradeRecommendations |-> <<>>, k |-> 0,
           trade |-> NoExec.trade, timestamp |-> 0, posAmt |-> 0, filled |-> 0,
           pending |-> <<>>]

InitWith(rows) ==
    /\ clock = StartClock
    /\ ticks = 0
    /\ masterKey \in BOOLEAN
    /\ store = [a \in rows |-> InitialRow(a)]
    /\ inv = [e \in EntryPoints |-> IdleInv]
    /\ cyc = [e \in EntryPoints |-> [a \in Accounts |-> NoCycle]]
    /\ lastExec = NoExec
    /\ exchange = NoOrders
    /\ call = [e \in EntryPoints |-> NoCall]

\* Sweeps that do not overlap in time, over two accounts.
Init == InitWith(Accounts)

Next ==
    \/ ClockRead /\ Tick
    \/ Quiescent /\ CronJob
    \/ Quiescent /\ Trigger
    \/ Cycle

Spec == Init /\ [][Next]_vars

\* Overlapping invocations (a cron tick and a manual trigger) over one account.
InitOverlap == InitWith({"a1"})

NextOverlap ==
    \/ ClockRead /\ Tick
    \/ CronJob
    \/ Trigger
    \/ Cycle

SpecOverlap == InitOverlap /\ [][NextOverlap]_vars

----------------------------------------------------------------------------
(* executeTradeInternal called once, on inputs drawn from bounded sets *)

Trades ==
    [symbol : Symbols, action : Actions, quantity : {4, 1500, 2500},
     leverage : {0, 2}, stopLoss : {0, 90}, takeProfit : {0, 110}]

Envs ==
    [creds : BOOLEAN, accountResp1 : {"ok", "error"}, posAmt : {-1000, 0, 2500},
     posLeverage : {2}, levRes : {"ok", "notok", "throw"},
     stepSize : {1, 10, 500, 1000}, accountResp2 : {"ok", "error"}, usdtFree : {25, 1000},
     priceResp : {Price(10), [kind |-> "nobody"], [kind |-> "throw"]},
     orderResp : {"ok", "noid", "reject"}, slRes : {"ok", "throw"},
     tpRes : {"ok", "throw"}]

TradeCall ==
    /\ lastExec.outcome = "none"
    /\ \E trade \in Trades, env \in Envs :
         lastExec' = executeTradeInternal(masterKey, trade, env)
    /\ UNCHANGED <<clock, ticks, masterKey, store, inv, cyc, exchange, call>>

NextTrade == TradeCall

SpecTrade == Init /\ [][NextTrade]_vars

----------------------------------------------------------------------------
(* The schedule validation on rows drawn from bounded sets: sweeps that do   *)
(* not overlap, over the one account a1                                      *)

\* The model starts at 08:59:00 (UTC+3) of the second day of the epoch.
ScheduleStart == SecondsPerDay + StartClock

\* last_autonomous_run of the row: none; 59 minutes and 59 minutes 30 seconds
\* before the start; 8 hours before (00:59 of the same UTC+3 day, the day
\* before in UTC); 9 hours before (23:59 of the UTC+3 day before).
LastRuns ==
    {NoRun} \cup {ScheduleStart - s :
                    s \in {59 * SecondsPerMinute, 59 * SecondsPerMinute + 30,
                           8 * SecondsPerHour, 9 * SecondsPerHour}}

ScheduleRows ==
    [is_autonomous_enabled : BOOLEAN, autonomous_schedule_type : {"interval"},
     autonomous_interval : {0, 60}, autonomous_daily_time : {<<9, 0>>},
     last_autonomous_run : LastRuns, expo_push_token : {FALSE}]
    \cup
    [is_autonomous_enabled : BOOLEAN, autonomous_schedule_type : {"daily"},
     autonomous_interval : {0}, autonomous_daily_time : {<<9, 0>>, <<8, 59>>},
     last_autonomous_run : LastRuns, expo_push_token : {FALSE}]

InitSchedule ==
    /\ clock = ScheduleStart
    /\ ticks = 0
    /\ masterKey = TRUE
    /\ \E row \in ScheduleRows : store = [a \in {"a1"} |-> row]
    /\ inv = [e \in EntryPoints |-> IdleInv]
    /\ cyc = [e \in EntryPoints |-> [a \in Accounts |-> NoCycle]]
    /\ lastExec = NoExec
    /\ exchange = NoOrders
    /\ call = [e \in EntryPoints |-> NoCall]

SpecSchedule == InitSchedule /\ [][Next]_vars

----------------------------------------------------------------------------
(* The first server's POST /trigger (lines 25-163): the handler itself runs  *)
(* the sweep over the enabled accounts, with no schedule validation, and     *)
(* answers its caller after Promise.allSettled.  The callback of users.map   *)
(* is the one of runTradeCycle without the try/catch: a thrown error rejects  *)
(* the callback's promise, which allSettled absorbs.                         *)

\* Lines 25-35: the request body is not read; the query for the enabled
\* accounts is issued and awaited.  Nothing is sent to the caller yet.
TriggerFirst ==
    /\ inv["trigger"].pc = "idle"
    /\ inv' = [inv EXCEPT !["trigger"] = [pc |-> "query", targetUserId |-> NoTarget,
                                          forceRun |-> TRUE, nowUTC |-> 0,
                                          acked |-> FALSE]]
    /\ UNCHANGED <<clock, ticks, masterKey, store, cyc, lastExec, exchange, call>>

\* Lines 37 and 154-157: userError is thrown and caught; the caller gets the
\* status 500.
QueryErrorFirst ==
    /\ inv["trigger"].pc = "query"
    /\ inv' = [inv EXCEPT !["trigger"] = [IdleInv EXCEPT !.acked = TRUE]]
    /\ UNCHANGED <<clock, ticks, masterKey, store, cyc, lastExec, exchange, call>>

\* Lines 40-52: every callback runs to its first await; new Date() of the
\* update of last_autonomous_run is read in this turn.
QueryReturnFirst ==
    /\ inv["trigger"].pc = "query"
    /\ inv' = [inv EXCEPT !["trigger"].pc = "map", !["trigger"].nowUTC = clock]
    /\ cyc' = [cyc EXCEPT !["trigger"] = [a \in Accounts |->
                 IF a \in users(NoTarget) THEN [NoCycle EXCEPT !.pc = "stamp"]
                                          ELSE NoCycle]]
    /\ UNCHANGED <<clock, ticks, masterKey, store, lastExec, exchange, call>>

\* Lines 149-152: allSettled has resolved and the caller is answered.
RespondFirst ==
    /\ inv["trigger"].pc = "map"
    /\ \A a \in Accounts : cyc["trigger"][a].pc \in {"none", "done"}
    /\ inv' = [inv EXCEPT !["trigger"] = [IdleInv EXCEPT !.acked = TRUE]]
    /\ cyc' = [cyc EXCEPT !["trigger"] = [a \in Accounts |-> NoCycle]]
    /\ UNCHANGED <<clock, ticks, masterKey, store, lastExec, exchange, call>>

NextFirst ==
    \/ ClockRead /\ Tick
    \/ TriggerFirst
    \/ QueryErrorFirst
    \/ QueryReturnFirst
    \/ RespondFirst
    \/ \E a \in Accounts :
          \/ StampLastRun("trigger", a)
          \/ FetchContext("trigger", a)
          \/ CallAnalyst("trigger", a)
          \/ ExecuteTrade("trigger", a)
          \/ Notify("trigger", a)

SpecFirstHandler == Init /\ [][NextFirst]_vars

----------------------------------------------------------------------------
(* The loop over tradeRecommendations with the call of executeTradeInternal  *)
(* and its result as two steps: the await of line 329 lies between them      *)

\* ExecuteTradeCall with the call not awaited (the proposals mapped to
\* promises): the loop goes on to the next proposal at once.
ExecuteTradeCallNotAwaited(e, a) ==
    /\ cyc[e][a].pc = "trade"
    /\ cyc[e][a].started < cyc[e][a].n
    /\ cyc' = [cyc EXCEPT ![e][a].started = cyc[e][a].started + 1]
    /\ UNCHANGED <<clock, ticks, masterKey, store, inv, lastExec, exchange, call>>

\* Lines 325-329: the loop takes the next proposal of the list and calls
\* executeTradeInternal; the callback waits for the call to end.
ExecuteTradeCall(e, a) ==
    /\ cyc[e][a].pc = "trade"
    /\ cyc[e][a].started < cyc[e][a].n
    /\ cyc' = [cyc EXCEPT ![e][a].started = cyc[e][a].started + 1,
                          ![e][a].pc = "exec"]
    /\ UNCHANGED <<clock, ticks, masterKey, store, inv, lastExec, exchange, call>>

\* Lines 329-353: the call returns or throws; the result is logged, the
\* error caught, and the loop resumes.
ExecuteTradeReturn(e, a) ==
    /\ cyc[e][a].pc = "exec"
    /\ \E res \in SweepResults[masterKey] :
         LET c == cyc[e][a]
         IN  cyc' = [cyc EXCEPT ![e][a] =
                  [c EXCEPT !.attempted = c.attempted + 1,
                            !.sent = c.sent + (IF res.marketSent THEN 1 ELSE 0),
                            !.accepted = c.accepted + (IF res.accepted THEN 1 ELSE 0),
                            !.actionLog = c.actionLog +
                                (IF res.returned /\ res.accepted THEN 1 ELSE 0),
                            !.pc = "trade"]]
    /\ UNCHANGED <<clock, ticks, masterKey, store, inv, lastExec, exchange, call>>

CycleLoop ==
    \E e \in EntryPoints :
        \/ QueryError(e)
        \/ QueryReturn(e)
        \/ SweepSettled(e)
        \/ \E a \in Accounts :
              \/ StampLastRun(e, a)
              \/ FetchContext(e, a)
              \/ CallAnalyst(e, a)
              \/ ExecuteTradeCall(e, a)
              \/ ExecuteTradeReturn(e, a)
              \/ Notify(e, a)

NextLoop ==
    \/ ClockRead /\ Tick
    \/ Quiescent /\ CronJob
    \/ Quiescent /\ Trigger
    \/ CycleLoop

\* Sweeps that do not overlap, over two accounts.
SpecLoop == Init /\ [][NextLoop]_vars

----------------------------------------------------------------------------
(* The trade loops of two cycles of one account (the cron sweep's and a      *)
(* forced trigger's) against the exchange: the position the exchange keeps,  *)
(* the orders it receives and the client order ids they carry                *)

\* The lists of proposals the decision service answers with, all on one
\* symbol.
CycleAnswers ==
    { <<Proposal("BTCUSDT", "BUY", Scale, 0, 90, 0)>>,
      <<Proposal("BTCUSDT", "BUY", Scale, 0, 90, 0),
        Proposal("BTCUSDT", "SELL", Scale, 0, 0, 0)>>,
      <<Proposal("BTCUSDT", "SELL", Scale, 0, 0, 0),
        Proposal("BTCUSDT", "CLOSE", 0, 0, 0, 0)>> }

\* What the settings store and the exchange answer during a call, but for
\* the position and the answer to the market order.
CycleEnv ==
    [creds |-> TRUE, accountResp1 |-> "ok", posAmt |-> 0,
     posLeverage |-> DefaultLeverage, levRes |-> "ok",
     stepSize |-> DefaultStepSize, accountResp2 |-> "ok", usdtFree |-> 1000,
     priceResp |-> Price(10), orderResp |-> "ok", slRes |-> "ok", tpRes |-> "ok"]

\* Lines 282-285: the client order id of the market order, from the prefix
\* and the timestamp read at line 213.
newClientOrderId(isClosing, timestamp) ==
    <<IF isClosing THEN "AI_CLOSE" ELSE "AI_OPEN", timestamp>>

\* Line 321: the client order id of a conditional order, from the tag of
\* lines 333-338 and the clock at the time the order is built.
algoId(type, now) ==
    <<IF type = "STOP_MARKET" THEN "AI_RULE_SL" ELSE "AI_RULE_TP", now>>

\* part_000:295-322: the context fetch at the top of the cycle; its
\* positions go to the decision service (line 303), which answers with a
\* list of proposals.
CycleContext(e) ==
    /\ call[e].pc = "idle"
    /\ \E answer \in CycleAnswers :
         call' = [call EXCEPT ![e] = [NoCall EXCEPT !.pc = "loop",
                                        !.tradeRecommendations = answer,
                                        !.positions = exchange.posAmt]]
    /\ UNCHANGED <<clock, ticks, masterKey, store, inv, cyc, lastExec, exchange>>

\* part_000:325-329 and binance.js:200-213: the loop calls
\* executeTradeInternal with the next proposal; timestamp = Date.now().  The
\* requests of the call before it took longer than one clock reading lasts.
BeginTrade(e) ==
    /\ call[e].pc = "loop" /\ call[e].k < Len(call[e].tradeRecommendations)
    /\ call[e].k = 0 \/ clock > call[e].timestamp
    /\ call' = [call EXCEPT ![e].pc = "positions",
                            ![e].trade = call[e].tradeRecommendations[call[e].k + 1],
                            ![e].timestamp = clock]
    /\ UNCHANGED <<clock, ticks, masterKey, store, inv, cyc, lastExec, exchange>>

\* FetchPositions reading the positions the cycle fetched before its loop.
FetchPositionsUsesSnapshot(e) ==
    /\ call[e].pc = "positions"
    /\ call' = [call EXCEPT ![e].pc = "order", ![e].posAmt = call[e].positions]
    /\ UNCHANGED <<clock, ticks, masterKey, store, inv, cyc, lastExec, exchange>>

\* binance.js:221-223: the call fetches the account's positions itself.
FetchPositions(e) ==
    /\ call[e].pc = "positions"
    /\ call' = [call EXCEPT ![e].pc = "order", ![e].posAmt = exchange.posAmt]
    /\ UNCHANGED <<clock, ticks, masterKey, store, inv, cyc, lastExec, exchange>>

\* binance.js:225-312: the proposal is routed on the fetched position,
\* quantized and validated, and the market order reaches the exchange, which
\* fills it or rejects it.  A call that ends here returns to the loop.
SubmitOrder(e) ==
    /\ call[e].pc = "order"
    /\ \E orderResp \in {"ok", "reject"} :
         LET c == call[e]
             res == executeTradeInternal(masterKey, c.trade,
                        [CycleEnv EXCEPT !.posAmt = c.posAmt, !.orderResp = orderResp])
             fill == IF ~res.marketSent \/ res.orderId = 0 THEN 0
                     ELSE IF res.side = "BUY" THEN res.quantity ELSE 0 - res.quantity
             pending == IF res.marketSent THEN res.condOrders ELSE <<>>
         IN  /\ exchange' =
                   IF ~res.marketSent THEN exchange
                   ELSE [posAmt |-> exchange.posAmt + fill,
                         ids |-> exchange.ids \cup
                                   {newClientOrderId(res.isClosing, c.timestamp)},
                         received |-> exchange.received + 1]
             /\ call' = [call EXCEPT ![e] =
                   IF pending # <<>>
                   THEN [c EXCEPT !.pc = "conditional", !.pending = pending,
                                  !.filled = c.filled + fill]
                   ELSE [c EXCEPT !.pc = "loop", !.k = c.k + 1,
                                  !.filled = c.filled + fill]]
    /\ UNCHANGED <<clock, ticks, masterKey, store, inv, cyc, lastExec>>

\* binance.js:319-339: the next conditional order of the call is built, with
\* the clock of that moment in its id, and reaches the exchange.
SubmitConditional(e) ==
    /\ call[e].pc = "conditional"
    /\ LET c == call[e]
           cond == Head(c.pending)
       IN  /\ exchange' = [exchange EXCEPT
                              !.ids = exchange.ids \cup {algoId(cond.type, clock)},
                              !.received = exchange.received + 1]
           /\ call' = [call EXCEPT ![e] =
                 IF Tail(c.pending) # <<>>
                 THEN [c EXCEPT !.pending = Tail(c.pending)]
                 ELSE [c EXCEPT !.pc = "loop", !.k = c.k + 1, !.pending = <<>>]]
    /\ UNCHANGED <<clock, ticks, masterKey, store, inv, cyc, lastExec>>

\* part_000:325: the list of proposals is exhausted.
EndCycle(e) ==
    /\ call[e].pc = "loop" /\ call[e].k = Len(call[e].tradeRecommendations)
    /\ call' = [call EXCEPT ![e].pc = "done"]
    /\ UNCHANGED <<clock, ticks, masterKey, store, inv, cyc, lastExec, exchange>>

TradeLoop ==
    \E e \in EntryPoints :
        \/ CycleContext(e)
        \/ BeginTrade(e)
        \/ FetchPositions(e)
        \/ SubmitOrder(e)
        \/ SubmitConditional(e)
        \/ EndCycle(e)

InitExchange == InitOverlap /\ masterKey

\* A cycle is between its context fetch and the end of its loop.
Underway == \E e \in EntryPoints : call[e].pc \notin {"idle", "done"}

NextExchange ==
    \/ Underway /\ Tick
    \/ TradeLoop

SpecExchange == InitExchange /\ [][NextExchange]_vars

----------------------------------------------------------------------------
(* Claims *)

Started(e, a) == cyc[e][a].pc \notin {"none", "declined"}

Other(e) == IF e = "cron" THEN "trigger" ELSE "cron"

\* Would the schedule check of invocation e decline account a, had it read
\* the last_autonomous_run that invocation f stamps?
DeclinesAfter(e, f, a) ==
    ~shouldRun(FALSE, [store[a] EXCEPT !.last_autonomous_run = inv[f].nowUTC],
               inv[e].nowUTC)

\* C1: of two overlapping invocations that are not forced, at most one judges
\* an account due and starts its cycle: whenever the stamp of one makes the
\* schedule check of the other decline, and conversely, they have not both
\* started the account's cycle.
C1_AtMostOneJudgesDue ==
    \A a \in DOMAIN store :
        ~ /\ \A e \in EntryPoints : inv[e].pc = "map" /\ ~inv[e].forceRun
          /\ \A e \in EntryPoints : Started(e, a)
          /\ \A e \in EntryPoints : DeclinesAfter(e, Other(e), a)

\* C2: within one sweep, when the context fetch of account a has failed, the
\* callback of every other account b is not stopped by it: b's callback can
\* take its next step until it has ended, it has emitted its notification
\* when it ended with a non-empty action log, and the step in which a's
\* fetch fails changes nothing of b's callback.
C2_SiblingState ==
    \A e \in EntryPoints : \A a, b \in Accounts :
        (a # b /\ cyc[e][a].ctx = "error" /\ Started(e, b)) =>
            /\ cyc[e][b].pc # "done" =>
                 ENABLED (\/ StampLastRun(e, b) \/ FetchContext(e, b) \/ CallAnalyst(e, b)
                          \/ ExecuteTrade(e, b) \/ Notify(e, b))
            /\ (cyc[e][b].pc = "done" /\ cyc[e][b].ctx = "ok" /\ cyc[e][b].analyst = "ok") =>
                 /\ cyc[e][b].attempted = cyc[e][b].n
                 /\ (cyc[e][b].actionLog > 0 => cyc[e][b].notified = 1)

C2_SiblingStep ==
    \A e \in EntryPoints : \A a, b \in Accounts :
        (a # b /\ cyc[e][a].ctx # "error" /\ cyc'[e][a].ctx = "error") =>
            cyc'[e][b] = cyc[e][b]

C2_SiblingUnaffected == []C2_SiblingState /\ [][C2_SiblingStep]_vars

C2_Witness ==
    \E e \in EntryPoints : \E a, b \in Accounts :
        /\ a # b
        /\ cyc[e][a].ctx = "error"
        /\ cyc[e][b].pc = "done" /\ cyc[e][b].actionLog > 0 /\ cyc[e][b].notified = 1

\* C3: a callback that has begun its external work (context fetch, decision
\* service, exchange) has written last_autonomous_run before; the row then
\* holds a run time, also after the cycle failed; and the written time only
\* changes when another cycle of the account stamps its own.
C3_StampedState ==
    \A e \in EntryPoints : \A a \in Accounts :
        /\ cyc[e][a].external => cyc[e][a].stamped
        /\ (Started(e, a) /\ cyc[e][a].pc # "stamp") =>
              /\ a \in DOMAIN store
              /\ store[a].last_autonomous_run # NoRun
              /\ store[a].last_autonomous_run >= StartClock

C3_StampStays ==
    \A a \in DOMAIN store :
        store'[a].last_autonomous_run # store[a].last_autonomous_run =>
            \E e \in EntryPoints :
                /\ cyc[e][a].pc = "stamp"
                /\ cyc'[e][a].stamped
                /\ store'[a].last_autonomous_run = inv[e].nowUTC

C3_StampBeforeWork == []C3_StampedState /\ [][C3_StampStays]_vars

C3_Witness ==
    \E e \in EntryPoints : \E a \in DOMAIN store :
        /\ cyc[e][a].pc = "done" /\ cyc[e][a].fail = "analyst"
        /\ cyc[e][a].stamped
        /\ store[a].last_autonomous_run = inv[e].nowUTC

\* C4: a cycle whose context fetch or decision-service call failed (a
\* non-success status included) has ended, has executed no proposal and has
\* sent no order request.
C4_FailedCycleSendsNothing ==
    \A e \in EntryPoints : \A a \in Accounts :
        (cyc[e][a].ctx = "error" \/ cyc[e][a].analyst \in {"notok", "throw"}) =>
            /\ cyc[e][a].pc = "done"
            /\ cyc[e][a].attempted = 0
            /\ cyc[e][a].sent = 0
            /\ cyc[e][a].accepted = 0
            /\ cyc[e][a].notified = 0

C4_Witness ==
    \E e \in EntryPoints : \E a \in Accounts :
        cyc[e][a].analyst = "notok" /\ cyc[e][a].pc = "done"

\* C5: a proposal whose execution throws is the only one abandoned: the loop
\* stays at work after it, and a cycle that got its proposals ends only after
\* every one of them was attempted, through the notification step.
C5_LoopEnded ==
    \A e \in EntryPoints : \A a \in Accounts :
        /\ (cyc[e][a].pc = "done" /\ cyc[e][a].analyst = "ok") =>
              cyc[e][a].attempted = cyc[e][a].n /\ cyc[e][a].fail \in {"none", "push"}
        /\ cyc[e][a].attempted <= cyc[e][a].n

C5_FailedIteration ==
    \A e \in EntryPoints : \A a \in Accounts :
        (cyc[e][a].pc = "trade" /\ cyc'[e][a].attempted = cyc[e][a].attempted + 1) =>
            /\ cyc'[e][a].pc = "trade"
            /\ cyc'[e][a].n = cyc[e][a].n

C5_OnlyThatProposalAbandoned == []C5_LoopEnded /\ [][C5_FailedIteration]_vars

ValidationFailures ==
    {"NoPositionToClose", "BelowMinimumNotional", "InsufficientBalance",
     "ExchangeRequestError"}

C5_Witness ==
    /\ ValidationFailures \subseteq {r.failure : r \in SweepResults[masterKey]}
    /\ \E e \in EntryPoints : \E a \in Accounts :
        /\ cyc[e][a].pc = "done" /\ cyc[e][a].n >= 2
        /\ cyc[e][a].attempted = cyc[e][a].n
        /\ cyc[e][a].actionLog = 0

\* C6: a cycle that ended after its loop has emitted exactly one notification
\* when at least one of its orders was given an exchange order id, and none
\* otherwise.
C6_OneNotificationIffOrderId ==
    \A e \in EntryPoints : \A a \in Accounts :
        (cyc[e][a].pc = "done" /\ cyc[e][a].analyst = "ok") =>
            cyc[e][a].notified = IF cyc[e][a].accepted > 0 THEN 1 ELSE 0

\* C7: an explicit CLOSE of a non-zero position is routed to the side
\* opposite to the position's sign, with quantity abs(position amount) and
\* isClosing; with a zero position it fails with NoPositionToClose and
\* nothing is sent to the exchange.
C7_CloseRouting ==
    (lastExec.routed /\ lastExec.trade.action = "CLOSE") =>
        /\ lastExec.posAmt > 0 => lastExec.side = "SELL"
        /\ lastExec.posAmt < 0 => lastExec.side = "BUY"
        /\ lastExec.posAmt # 0 =>
              /\ lastExec.routedQuantity = Abs(lastExec.posAmt)
              /\ lastExec.isClosing
              /\ lastExec.outcome # "NoPositionToClose"
        /\ lastExec.posAmt = 0 =>
              /\ lastExec.outcome = "NoPositionToClose"
              /\ ~lastExec.marketSent
              /\ ~lastExec.leverageCall
              /\ lastExec.condOrders = <<>>
              /\ lastExec.orderId = 0

C7_Witness ==
    /\ lastExec.routed /\ lastExec.trade.action = "CLOSE"
    /\ lastExec.posAmt = 2500 /\ lastExec.side = "SELL"
    /\ lastExec.routedQuantity = 2500 /\ lastExec.isClosing
    /\ lastExec.marketSent /\ lastExec.quantity = 2500

\* C8: a BUY or SELL proposal is routed with its own side and quantity, and
\* isClosing holds exactly when the side reduces the position.
C8_BuySellRouting ==
    (lastExec.routed /\ lastExec.trade.action \in {"BUY", "SELL"}) =>
        /\ lastExec.side = lastExec.trade.action
        /\ lastExec.routedQuantity = lastExec.trade.quantity
        /\ lastExec.isClosing <=>
              \/ (lastExec.trade.action = "SELL" /\ lastExec.posAmt > 0)
              \/ (lastExec.trade.action = "BUY" /\ lastExec.posAmt < 0)

C8_Witness ==
    /\ lastExec.routed /\ lastExec.trade.action = "BUY"
    /\ lastExec.posAmt < 0 /\ lastExec.isClosing
    /\ lastExec.side = "BUY" /\ lastExec.marketSent

\* C9: a market order is sent only with a quantized quantity above zero and
\* a notional of at least the minimum of its symbol (5 for the allow-listed
\* symbols, 20 for the others); a trade below the minimum fails with
\* BelowMinimumNotional and sends nothing.
C9_SentOnlyAboveMinimum ==
    /\ lastExec.marketSent =>
          /\ lastExec.quantity > 0
          /\ ~lastExec.notional.nan
          /\ lastExec.notional.v >= lastExec.minNotional * Scale
          /\ lastExec.minNotional =
                IF lastExec.trade.symbol \in {"BTCUSDT", "ETHUSDT", "BNBUSDT"}
                THEN 5 ELSE 20
    /\ lastExec.outcome = "BelowMinimumNotional" => ~lastExec.marketSent

\* C10: the balance check applies to non-closing orders only: an order
\* routed with isClosing is never rejected with InsufficientBalance, and a
\* non-closing order whose notional exceeds 90% of the free USDT balance is.
C10_BalanceCheckNonClosingOnly ==
    /\ lastExec.isClosing => lastExec.outcome # "InsufficientBalance"
    /\ ( /\ lastExec.marketSent /\ ~lastExec.isClosing /\ ~lastExec.notional.nan ) =>
          lastExec.notional.v * 10 <= lastExec.usdtFree * 9 * Scale

\* The time of day of instant t in the UTC+3 calendar, in seconds, and
\* whether instant s falls on the civil day of instant t in that calendar.
TimeOfDay(t) == (t + trOffset) % SecondsPerDay

SameCivilDay(s, t) ==
    LET dayStart == (t + trOffset) - TimeOfDay(t)
    IN  dayStart <= s + trOffset /\ s + trOffset < dayStart + SecondsPerDay

\* The schedule check of invocation e has judged account a and the row it
\* read is still the row of the store.
Judged(e, a) ==
    /\ inv[e].pc = "map" /\ ~inv[e].forceRun
    /\ cyc[e][a].pc \in {"stamp", "declined"}

\* C11: an account with scheduleType interval is judged due exactly when no
\* last run is recorded or at least intervalMinutes (60 when none is
\* configured) full minutes lie between the last run and the sweep's now.
C11_IntervalDue ==
    \A e \in EntryPoints : \A a \in DOMAIN store :
        (Judged(e, a) /\ store[a].autonomous_schedule_type = "interval") =>
            LET minutes == IF store[a].autonomous_interval > 0
                           THEN store[a].autonomous_interval ELSE 60
                elapsed == inv[e].nowUTC - store[a].last_autonomous_run
            IN  cyc[e][a].pc = "stamp" <=>
                    \/ store[a].last_autonomous_run = NoRun
                    \/ elapsed >= minutes * SecondsPerMinute

C11_Witness ==
    \E e \in EntryPoints : \E a \in DOMAIN store :
        /\ Judged(e, a) /\ store[a].autonomous_schedule_type = "interval"
        /\ store[a].autonomous_interval = 60
        /\ store[a].last_autonomous_run # NoRun
        /\ inv[e].nowUTC - store[a].last_autonomous_run = 60 * SecondsPerMinute
        /\ cyc[e][a].pc = "stamp"

\* C12: an account with scheduleType daily is judged due exactly when its
\* last run does not fall on the current civil day of the UTC+3 calendar and
\* the UTC+3 time of day is at or past dailyTime.
C12_DailyDue ==
    \A e \in EntryPoints : \A a \in DOMAIN store :
        (Judged(e, a) /\ store[a].autonomous_schedule_type = "daily") =>
            LET dailyTime == store[a].autonomous_daily_time
                lastRun == store[a].last_autonomous_run
                ranToday == lastRun # NoRun /\ SameCivilDay(lastRun, inv[e].nowUTC)
            IN  cyc[e][a].pc = "stamp" <=>
                    /\ ~ranToday
                    /\ TimeOfDay(inv[e].nowUTC) >=
                          dailyTime[1] * SecondsPerHour + dailyTime[2] * SecondsPerMinute

C12_Witness ==
    \E e \in EntryPoints : \E a \in DOMAIN store :
        /\ Judged(e, a) /\ store[a].autonomous_schedule_type = "daily"
        /\ store[a].autonomous_daily_time = <<9, 0>>
        /\ TimeOfDay(inv[e].nowUTC) = 9 * SecondsPerHour
        /\ store[a].last_autonomous_run = ScheduleStart - 9 * SecondsPerHour
        /\ cyc[e][a].pc = "stamp"

\* C13: with sweeps that do not overlap, a daily account starts at most one
\* cycle per UTC+3 civil day.  A cycle that has started has stamped its
\* sweep's now by the time its work begins and keeps it to its end, failed or
\* not; the stamp is only ever replaced by a later cycle's stamp; and a
\* non-forced evaluation that finds a stamp of the current civil day declines.
C13_StampOfTheDay ==
    \A e \in EntryPoints : \A a \in DOMAIN store :
        (store[a].autonomous_schedule_type = "daily"
            /\ Started(e, a) /\ cyc[e][a].pc # "stamp") =>
                /\ store[a].last_autonomous_run = inv[e].nowUTC
                /\ SameCivilDay(store[a].last_autonomous_run, clock)

C13_LaterEvaluationDeclines ==
    \A a \in DOMAIN store :
        store[a].autonomous_schedule_type = "daily" =>
            /\ \A e \in EntryPoints :
                  ( /\ inv[e].pc = "query" /\ inv'[e].pc = "map" /\ ~inv[e].forceRun
                    /\ store[a].last_autonomous_run # NoRun
                    /\ SameCivilDay(store[a].last_autonomous_run, clock) ) =>
                        ~Started(e, a)'
            /\ store'[a].last_autonomous_run # store[a].last_autonomous_run =>
                  \E e \in EntryPoints :
                      /\ cyc[e][a].pc = "stamp"
                      /\ store'[a].last_autonomous_run = inv[e].nowUTC
                      /\ store[a].last_autonomous_run <= inv[e].nowUTC

C13_OneCyclePerCivilDay == []C13_StampOfTheDay /\ [][C13_LaterEvaluationDeclines]_vars

C13_Witness ==
    \E e \in EntryPoints : \E a \in DOMAIN store :
        /\ Judged(e, a) /\ store[a].autonomous_schedule_type = "daily"
        /\ cyc[e][a].pc = "declined"
        /\ store[a].last_autonomous_run >= ScheduleStart
        /\ TimeOfDay(inv[e].nowUTC) >= 9 * SecondsPerHour

\* C14: a forced sweep that names an account starts that account's cycle,
\* whatever the row's schedule type, interval, daily time and last run are.
C14_ForcedRunStarts ==
    \A e \in EntryPoints : \A a \in DOMAIN store :
        (inv[e].pc = "map" /\ inv[e].forceRun /\ inv[e].targetUserId = a) =>
            Started(e, a)

C14_Witness ==
    \E e \in EntryPoints : \E a \in DOMAIN store :
        /\ inv[e].pc = "map" /\ inv[e].forceRun /\ inv[e].targetUserId = a
        /\ cyc[e][a].pc = "stamp"
        /\ store[a].autonomous_schedule_type = "daily"
        /\ store[a].last_autonomous_run # NoRun
        /\ SameCivilDay(store[a].last_autonomous_run, inv[e].nowUTC)
        /\ TimeOfDay(inv[e].nowUTC) < 9 * SecondsPerHour

\* C15: in a sweep that names no account, forced or not, an account whose
\* automation flag is disabled gets no callback at all; and the row of a
\* disabled account is only ever written by a sweep that names the account.
C15_DisabledNotStarted ==
    \A e \in EntryPoints : \A a \in DOMAIN store :
        (inv[e].pc = "map" /\ inv[e].targetUserId = NoTarget
            /\ ~store[a].is_autonomous_enabled) => cyc[e][a] = NoCycle

C15_DisabledNotStamped ==
    \A a \in DOMAIN store :
        (~store[a].is_autonomous_enabled /\ store'[a] # store[a]) =>
            \E e \in EntryPoints : inv[e].targetUserId = a /\ cyc[e][a].pc = "stamp"

C15_DisabledUntouched == []C15_DisabledNotStarted /\ [][C15_DisabledNotStamped]_vars

C15_Witness ==
    \E a \in DOMAIN store :
        /\ inv["trigger"].pc = "map" /\ inv["trigger"].forceRun
        /\ inv["trigger"].targetUserId = NoTarget
        /\ ~store[a].is_autonomous_enabled
        /\ store[a].last_autonomous_run = NoRun
        /\ cyc["trigger"][a] = NoCycle

\* C16: POST /trigger has acknowledged its caller whenever an account cycle
\* of the sweep it started is at work: the acknowledgement does not wait for
\* the cycles nor for the sweep to settle.
C16_AckWithoutWaiting ==
    \A a \in Accounts :
        ( /\ inv["trigger"].pc = "map"
          /\ Started("trigger", a) /\ cyc["trigger"][a].pc # "done" ) =>
              inv["trigger"].acked

\* C17: with the master key missing, a sweep processes no account: no
\* last_autonomous_run is stamped, and no callback reaches the decision
\* service or the exchange.
C17_MissingKeyAbortsSweep ==
    ~masterKey =>
        /\ \A a \in DOMAIN store : store[a].last_autonomous_run = NoRun
        /\ \A e \in EntryPoints : \A a \in Accounts :
              /\ ~cyc[e][a].stamped
              /\ cyc[e][a].analyst = "none"
              /\ cyc[e][a].attempted = 0
              /\ cyc[e][a].sent = 0

\* The number of decimal places max(0, round(-log10(step))) of the steps of
\* Envs: 3 for 0.001, 2 for 0.01, 0 for 0.5 (round(0.30103) = 0) and for 1.
Places(step) ==
    IF step = 1 THEN 3 ELSE IF step = 10 THEN 2 ELSE 0

\* C18: the quantity roundToStep prints for a value and a step denotes a
\* non-negative integer multiple of the step that is not above the value,
\* and has no more decimal places than max(0, round(-log10(step))).
C18_RoundToStepNeverRoundsUp ==
    lastExec.stepSize > 0 =>
        /\ lastExec.quantity >= 0
        /\ lastExec.quantity % lastExec.stepSize = 0
        /\ lastExec.quantity <= lastExec.routedQuantity
        /\ lastExec.quantity % (Scale \div Pow10(Places(lastExec.stepSize))) = 0

\* C19: the proposals of a cycle, taken by their position in the list the
\* decision service returned, are handled one after another: at most one
\* call of executeTradeInternal is in flight, a call starts only when every
\* earlier one has ended (returned or thrown), it is the call of the next
\* position, and the call that ends is the one in flight.
C19_OneInFlight ==
    \A e \in EntryPoints : \A a \in Accounts :
        /\ cyc[e][a].started <= cyc[e][a].n
        /\ cyc[e][a].started - cyc[e][a].attempted \in {0, 1}
        /\ cyc[e][a].pc = "exec" <=> cyc[e][a].started = cyc[e][a].attempted + 1

C19_NextAfterPrevious ==
    \A e \in EntryPoints : \A a \in Accounts :
        cyc'[e][a].pc # "none" =>
            /\ cyc'[e][a].started # cyc[e][a].started =>
                  /\ cyc[e][a].attempted = cyc[e][a].started
                  /\ cyc'[e][a].started = cyc[e][a].started + 1
                  /\ cyc'[e][a].attempted = cyc[e][a].attempted
            /\ cyc'[e][a].attempted # cyc[e][a].attempted =>
                  /\ cyc'[e][a].attempted = cyc[e][a].attempted + 1
                  /\ cyc'[e][a].attempted = cyc[e][a].started

C19_Sequential == []C19_OneInFlight /\ [][C19_NextAfterPrevious]_vars

C19_Witness ==
    \E e \in EntryPoints : \E a \in Accounts :
        /\ cyc[e][a].pc = "exec" /\ cyc[e][a].n >= 2
        /\ cyc[e][a].started = 2 /\ cyc[e][a].attempted = 1
        /\ cyc[e][a].actionLog = 0

\* C20: conditional orders are submitted only after a market order that was
\* not closing and was given an order id; a STOP_MARKET only when the
\* proposal has a stop-loss above zero, a TAKE_PROFIT_MARKET only when it has
\* a take-profit above zero, at most one of each, each on the side opposite
\* to the market order; none follows an explicit CLOSE, a reducing order, a
\* rejected order or a failed validation.
C20_ConditionalOrdersOnlyAfterOpening ==
    LET orders == lastExec.condOrders
        reduces == \/ lastExec.trade.action = "CLOSE"
                   \/ (lastExec.trade.action = "SELL" /\ lastExec.posAmt > 0)
                   \/ (lastExec.trade.action = "BUY" /\ lastExec.posAmt < 0)
    IN  /\ orders # <<>> =>
              /\ ~lastExec.isClosing /\ ~reduces
              /\ lastExec.marketSent /\ lastExec.orderId # 0
              /\ lastExec.outcome \notin
                    {"InvalidQuantity", "NoMarketPrice", "BelowMinimumNotional",
                     "InsufficientBalance", "NoPositionToClose", "ExchangeRequestError"}
        /\ \A i \in 1..Len(orders) :
              /\ orders[i].side # lastExec.side
              /\ orders[i].side \in {"BUY", "SELL"}
              /\ orders[i].type = "STOP_MARKET" => lastExec.trade.stopLoss > 0
              /\ orders[i].type = "TAKE_PROFIT_MARKET" => lastExec.trade.takeProfit > 0
              /\ orders[i].type \in {"STOP_MARKET", "TAKE_PROFIT_MARKET"}
        /\ Len(orders) <= 2
        /\ Len(orders) = 2 => orders[1].type # orders[2].type

C20_Witness ==
    /\ lastExec.outcome = "ok" /\ lastExec.side = "BUY" /\ ~lastExec.isClosing
    /\ lastExec.posAmt > 0
    /\ lastExec.condOrders = << [type |-> "STOP_MARKET", side |-> "SELL"],
                                [type |-> "TAKE_PROFIT_MARKET", side |-> "SELL"] >>

\* C21: every market order of a cycle that the exchange gave an order id is
\* listed in the cycle's outcome: the action log has one entry per accepted
\* order, whatever a later step of the same trade did.
C21_AcceptedOrdersListed ==
    \A e \in EntryPoints : \A a \in Accounts :
        cyc[e][a].actionLog = cyc[e][a].accepted

\* C25: an order routed with isClosing never exceeds the position it
\* closes: its submitted quantity is at most abs(position amount), so that
\* one order cannot change the sign of the position.
C25_ClosingNeverFlips ==
    (lastExec.marketSent /\ lastExec.isClosing) =>
        lastExec.quantity <= Abs(lastExec.posAmt)

\* C22: a leverage change that failed (non-success response or rejected
\* fetch) does not end the trade: the call goes on to routing, the routed
\* side and quantity, the quantization and the outcome of validation and
\* submission are the ones of the proposal and the position, and none of
\* its outcomes is the leverage failure; a CLOSE proposal makes no leverage
\* request.
C22_LeverageFailureNotFatal ==
    /\ lastExec.levRes \in {"notok", "throw"} =>
          LET r == route(lastExec.trade.action, lastExec.trade.quantity, lastExec.posAmt)
          IN  /\ lastExec.outcome # "LeverageChangeFailed"
              /\ lastExec.routed
              /\ lastExec.side = r.side /\ lastExec.routedQuantity = r.quantity
              /\ lastExec.isClosing = r.isClosing
              /\ r.err = "ok" =>
                    /\ lastExec.stepSize > 0
                    /\ lastExec.quantity = roundToStep(r.quantity, lastExec.stepSize)
                    /\ lastExec.outcome \in
                          {"ok", "ConditionalOrderError", "ExchangeRequestError",
                           "InvalidQuantity", "NoMarketPrice", "BelowMinimumNotional",
                           "InsufficientBalance"}
                    /\ lastExec.outcome \in {"ok", "ConditionalOrderError"} =>
                          lastExec.marketSent
    /\ lastExec.trade.action = "CLOSE" =>
          /\ ~lastExec.leverageCall /\ lastExec.levRes = "none"
          /\ \A i \in 1..Len(lastExec.requests) :
                lastExec.requests[i].endpoint # "leverage"

C22_Witness ==
    /\ lastExec.levRes = "throw" /\ lastExec.leverageCall
    /\ lastExec.trade.action = "BUY" /\ lastExec.trade.leverage = 2
    /\ lastExec.outcome = "ok" /\ lastExec.marketSent /\ lastExec.orderId # 0
    /\ \E i \in 1..Len(lastExec.requests) : lastExec.requests[i].endpoint = "leverage"

\* C23: every authenticated request sent to the exchange carries a parameter
\* timestamp, a parameter recvWindow, and the signature of exactly the query
\* string it sends.
C23_SignedRequestsComplete ==
    \A i \in 1..Len(lastExec.requests) :
        LET req == lastExec.requests[i]
            names == {req.query[k] : k \in 1..Len(req.query)}
        IN  /\ "timestamp" \in names
            /\ "recvWindow" \in names
            /\ req.signedOver = req.query
            /\ req.sent = Append(req.signedOver, "signature")

\* C24: the orders the exchange has received from one account, market and
\* conditional, from every trade of every cycle, carry pairwise different
\* client order ids: there are as many ids as orders.
C24_ClientOrderIdsUnique ==
    Cardinality(exchange.ids) = exchange.received

\* C26 as stated: while no other cycle of the account runs, the position a
\* call routes its proposal on is the one the cycle fetched before its loop.
C26_RoutesOnTopOfCyclePosition ==
    \A e \in EntryPoints :
        (call[e].pc = "order" /\ call[Other(e)].pc = "idle") =>
            call[e].posAmt = call[e].positions

\* C26, amended: the position a call routes its proposal on is the one the
\* call itself fetched from the exchange after the earlier trades of the
\* cycle ended: what the exchange held at that fetch, which, while no other
\* cycle of the account runs, is the position fetched before the loop
\* changed by every order of the cycle the exchange has filled; the closing
\* tag, the side and the quantity of the order sent are those of route on
\* that position.
C26_FetchedPerCall ==
    \A e \in EntryPoints :
        (call[e].pc = "order" /\ call[Other(e)].pc = "idle") =>
            call[e].posAmt = call[e].positions + call[e].filled

C26_RoutedOnFetched ==
    \A e \in EntryPoints :
        /\ (call[e].pc = "positions" /\ call'[e].pc = "order") =>
              call'[e].posAmt = exchange.posAmt
        /\ (call[e].pc = "order" /\ call'[e].pc # "order"
                /\ exchange'.received > exchange.received) =>
              LET r == route(call[e].trade.action, call[e].trade.quantity, call[e].posAmt)
                  signed == IF r.side = "BUY" THEN r.quantity ELSE 0 - r.quantity
              IN  /\ r.err = "ok"
                  /\ newClientOrderId(r.isClosing, call[e].timestamp) \in exchange'.ids
                  /\ exchange'.posAmt \in {exchange.posAmt, exchange.posAmt + signed}

C26_RoutesOnFreshPosition == []C26_FetchedPerCall /\ [][C26_RoutedOnFetched]_vars

C26_Witness ==
    \E e \in EntryPoints :
        /\ call[e].pc = "order" /\ call[Other(e)].pc = "idle" /\ call[e].k = 1
        /\ call[e].positions = 0 /\ call[e].posAmt = Scale
        /\ call[e].trade.action = "SELL"
        /\ route("SELL", call[e].trade.quantity, call[e].posAmt).isClosing
        /\ ~route("SELL", call[e].trade.quantity, call[e].positions).isClosing

\* Whether a row is due at an instant, by the rules of C11 and C12.
ScheduleDue(row, now) ==
    LET minutes == IF row.autonomous_interval > 0 THEN row.autonomous_interval ELSE 60
        lastRun == row.last_autonomous_run
        dailyTime == row.autonomous_daily_time
    IN  IF row.autonomous_schedule_type = "interval"
        THEN lastRun = NoRun \/ now - lastRun >= minutes * SecondsPerMinute
        ELSE /\ ~(lastRun # NoRun /\ SameCivilDay(lastRun, now))
             /\ TimeOfDay(now) >= dailyTime[1] * SecondsPerHour
                                    + dailyTime[2] * SecondsPerMinute

\* C27: a forced cycle writes its sweep's now to last_autonomous_run by the
\* time its work begins, as a scheduled one does; and once a daily account
\* carries the stamp of a forced cycle, no later minute of that UTC+3 civil
\* day is due for it, be the stamp before dailyTime or not, and a
\* non-forced evaluation that finds such a stamp of its civil day declines.
C27_ForcedStampOfTheDay ==
    \A e \in EntryPoints : \A a \in DOMAIN store :
        (inv[e].forceRun /\ Started(e, a) /\ cyc[e][a].pc # "stamp") =>
            /\ cyc[e][a].stamped
            /\ store[a].last_autonomous_run = inv[e].nowUTC
            /\ store[a].autonomous_schedule_type = "daily" =>
                  \A m \in 0..(SecondsPerDay \div SecondsPerMinute) :
                      LET t == inv[e].nowUTC + m * SecondsPerMinute
                      IN  SameCivilDay(t, inv[e].nowUTC) =>
                              /\ ~ScheduleDue(store[a], t)
                              /\ ~shouldRun(FALSE, store[a], t)

C27_EvaluationAfterStampDeclines ==
    \A e \in EntryPoints : \A a \in DOMAIN store :
        ( /\ inv[e].pc = "query" /\ inv'[e].pc = "map" /\ ~inv[e].forceRun
          /\ store[a].autonomous_schedule_type = "daily"
          /\ store[a].last_autonomous_run # NoRun
          /\ SameCivilDay(store[a].last_autonomous_run, clock)
          /\ TimeOfDay(store[a].last_autonomous_run)
                < store[a].autonomous_daily_time[1] * SecondsPerHour
                    + store[a].autonomous_daily_time[2] * SecondsPerMinute ) =>
                cyc'[e][a].pc \in {"none", "declined"}

C27_ForcedRunConsumesTheDay ==
    []C27_ForcedStampOfTheDay /\ [][C27_EvaluationAfterStampDeclines]_vars

C27_Witness ==
    \E e \in EntryPoints : \E a \in DOMAIN store :
        /\ Judged(e, a) /\ store[a].autonomous_schedule_type = "daily"
        /\ store[a].autonomous_daily_time = <<9, 0>>
        /\ cyc[e][a].pc = "declined"
        /\ store[a].last_autonomous_run >= ScheduleStart
        /\ TimeOfDay(store[a].last_autonomous_run) < 9 * SecondsPerHour
        /\ TimeOfDay(inv[e].nowUTC) >= 9 * SecondsPerHour

====
